---- MODULE Spec2Model ----
(***************************************************************************)
(* DecisionDeck: the vote ledger (POST /votes, PUT /votes/:id/invalidate), *)
(* the candidate administration routes and the results query, over the     *)
(* Candidate, Vote and User collections.                                   *)
(*                                                                         *)
(* Every await of a handler is one step; the store operations themselves   *)
(* (findById, findOne, findByIdAndUpdate, insert, update, countDocuments)  *)
(* are atomic.                                                             *)
(*                                                                         *)
(* Two Vote schemas are in the repository and both register the model      *)
(* 'Vote': server/models/Vote.js (no hooks) and the schema with the        *)
(* pre('save') statistics hook.  A process loads exactly one of them;      *)
(* which one is fixed per run by voteModel.                                *)
(*                                                                         *)
(* Candidate.save() runs candidateSchema.pre('save').  When voteCount is   *)
(* modified the hook awaits updateStats(), which ends in this.save() on    *)
(* the document that is being saved.  The connection options of the server *)
(* (useUnifiedTopology, maxPoolSize) are those of Mongoose 5.7 or later,   *)
(* where a save() on a document that is already saving is rejected with    *)
(* ParallelSaveError: updateStats rejects, the hook rejects, and the outer *)
(* save rejects without writing.                                           *)
(***************************************************************************)
EXTENDS Integers, FiniteSets, Sequences, TLC

\* requests per behaviour, handlers running at the same time
MaxReq == 2
MaxInFlight == 2
\* requests per behaviour of SpecRace
MaxRaceReq == 3
\* ledger requests per behaviour of SpecResults
MaxQueryReq == 1
\* requests per behaviour of SpecRevote
MaxRevoteReq == 3
\* requests per behaviour of SpecPair
MaxPairReq == 2
\* requests per behaviour of SpecFanout
MaxFanoutReq == 2
\* requests per behaviour of SpecAuth, SpecAdmin and SpecQuery
MaxAuthReq == 2
MaxAdminReq == 2
MaxQueryAuthReq == 2
\* the clock stops at MaxAuthTime in SpecAuth, SpecAdmin and SpecQuery
MaxAuthTime == 1
\* requests per behaviour of SpecRateLimit, and the time its clock stops at
MaxRateReq == 7
MaxRateTime == 4
\* castVote requests per behaviour of SpecRepeat
MaxRepeatReq == 1
\* events of the client that the server has not handled yet, in SpecClient
MaxWire == 2
\* castVote and invalidateVote requests per behaviour of SpecStats
MaxStatsReq == 2
\* castVote and invalidateVote requests per behaviour of SpecSave
MaxSaveReq == 3
\* nested save() calls after which a save chain counts as not returning
MaxSaveDepth == 3

Max(a, b) == IF a >= b THEN a ELSE b

Voters == {"v1", "v2"}
Cands == {"c1", "c2"}
Positions == {"p1", "p2"}
ReqIds == 1..Max(Max(Max(MaxReq, MaxRevoteReq), Max(MaxRaceReq, Max(MaxQueryReq, MaxPairReq))),
               Max(Max(MaxFanoutReq, MaxAuthReq), Max(MaxAdminReq, MaxQueryAuthReq)))
NoCand == "none"
NoPos == "none"
NoVoter == "none"

\* The users: the voters and an administrator.  Time is counted in units of
\* five minutes.
Admins == {"a1"}
UserIds == Voters \cup Admins
\* a user id that resolves to no User document
GoneUser == "gone"
\* auth: maxAge = 7 * 24 * 60 * 60 * 1000 ms
MaxAge == 2016
\* auth: lastLoginThreshold = 5 * 60 * 1000 ms
LastLoginThreshold == 1
\* rateLimitAuth: the window of 15 minutes and the attempts it admits
WindowMs == 3
MaxAttempts == 5

\* socket.io: the connected clients and the rooms they can join, one room
\* vote-<position> per position and the analytics room
Sockets == {"s1", "s2"}
AnalyticsRoom == "analytics-room"
Rooms == Positions \cup {AnalyticsRoom}

VARIABLES voteModel, cand, votes, userTotal, req, events, lastResponse, resQ,
          sockets, users, now, lastToken, authAttempts, attemptLog, prevQ,
          client, statsQ

vars == <<voteModel, cand, votes, userTotal, req, events, lastResponse, resQ,
          sockets, users, now, lastToken, authAttempts, attemptLog, prevQ,
          client, statsQ>>

\* the Map of rateLimitAuth and, for each address, the record of what its
\* requests were answered
limiterVars == <<authAttempts, attemptLog>>

\* what the ledger, candidate and query handlers leave alone, the emit of
\* POST /votes apart
gatewayVars == <<users, now, lastToken, limiterVars>>

envVars == <<sockets, gatewayVars, prevQ, client, statsQ>>

(* ---------------------------------------------------------------------- *)
(* Store                                                                   *)
(* ---------------------------------------------------------------------- *)

\* A Candidate document: isActive defaults to true, voteCount to 0.
NewCandidate(p) == [st |-> "live", position |-> p, isActive |-> TRUE, voteCount |-> 0]

AbsentCandidate == [st |-> "absent", position |-> NoPos, isActive |-> FALSE, voteCount |-> 0]

\* Candidate.findById(id) resolves to a document
CandidateExists(c) == c \in Cands /\ cand[c].st = "live"

\* votes.js 31 with the active check left out
CandidateAvailable_NoActiveCheck(c) == CandidateExists(c)

\* votes.js 31: candidate && candidate.isActive
CandidateAvailable(c) == CandidateExists(c) /\ cand[c].isActive

\* A Vote document: isValid defaults to true.
NewVote(id, v, c, p) == [id |-> id, voter |-> v, candidate |-> c, position |-> p, isValid |-> TRUE]

\* Vote.findById(id)
VoteById(id) == {x \in votes : x.id = id}

\* Vote.findOne({ voter, position })
FindVote(v, p) == {x \in votes : x.voter = v /\ x.position = p}

\* the existing-vote check looking for a valid vote only
ExistingVote_ValidOnly(v, p) == {x \in FindVote(v, p) : x.isValid}

\* votes.js 36-39: existingVote = Vote.findOne({ voter: req.user._id, position })
ExistingVote(v, p) == FindVote(v, p)

\* Vote.countDocuments({ position })
CountPosition(p) == Cardinality({x \in votes : x.position = p})

\* Vote.countDocuments({ candidate })
CountCandidate(c) == Cardinality({x \in votes : x.candidate = c})

\* the index { voter: 1, position: 1 } without the unique option
UniqueIndexAccepts_NotUnique(v, p) == TRUE

\* the unique index { voter: 1, position: 1 }: the insert is accepted
\* only if no stored Vote has the same voter and position
UniqueIndexAccepts(v, p) == FindVote(v, p) = {}

\* Candidate.findByIdAndUpdate(id, { $inc: { voteCount: d } }): atomic, no
\* validators, a no-op when the id does not resolve
IncVoteCount(cs, c, d) ==
  IF c \in Cands /\ cs[c].st = "live"
  THEN [cs EXCEPT ![c].voteCount = @ + d]
  ELSE cs

\* the Vote schema in use has the statistics pre('save') hook
HasStatsHook == voteModel = "enhanced"

(* ---------------------------------------------------------------------- *)
(* Candidate.save()                                                        *)
(* ---------------------------------------------------------------------- *)

\* a save() that does not test whether the document is being saved
ParallelSave_NotTested(saving) == FALSE

\* Model.prototype.save of mongoose rejects with ParallelSaveError when a
\* save of the same document is under way
ParallelSave(saving) == saving

\* candidate.save(), User.js 561-567 and 404-455: save() marks the document
\* as saving and runs pre('save'); with voteCount modified the hook awaits
\* updateStats(), which sets voteCount and stats and ends in this.save()
\* on the same document, the save one level deeper; its outcome is the
\* outcome of the hook and so of the save.  A chain that reaches
\* MaxSaveDepth levels does not return.
RECURSIVE SaveChain(_, _, _)
SaveChain(modified, saving, depth) ==
  IF ParallelSave(saving) THEN "ParallelSaveError"
  ELSE IF ~modified THEN "ok"
  ELSE IF depth >= MaxSaveDepth THEN "unbounded"
  ELSE SaveChain(TRUE, TRUE, depth + 1)

\* candidateSchema.pre('save') of a save() called by a route: with
\* voteCount modified it awaits updateStats(), whose final this.save() is
\* rejected (the document is already saving); with nothing modified the
\* hook passes.
CandidatePreSave(modified) == SaveChain(modified, FALSE, 0)

(* ---------------------------------------------------------------------- *)
(* Requests                                                                *)
(* ---------------------------------------------------------------------- *)

\* A request slot.  voter, cand, pos, vote, snap are the handler's locals
\* (snap: voteCount of the Candidate document it loaded).  alone, count0 and
\* valid0 are bookkeeping for the properties: no other request arrived since
\* this one did, and the candidate's stored voteCount and the vote's isValid
\* when it arrived.
IdleReq == [kind |-> "none", pc |-> "idle", voter |-> NoVoter, cand |-> NoCand,
            pos |-> NoPos, vote |-> 0, snap |-> 0,
            alone |-> FALSE, count0 |-> 0, valid0 |-> FALSE]

Done == [IdleReq EXCEPT !.pc = "done"]

\* the requests whose handler has started and has not yet answered
InFlight == {q \in ReqIds : req[q].pc \notin {"idle", "done"}}

\* a new request takes the first unused slot of the first `slots`, while
\* fewer than `flight` handlers are running
NextSlot(r, slots, flight) ==
  /\ r <= slots
  /\ req[r].pc = "idle"
  /\ \A q \in ReqIds : q < r => req[q].pc # "idle"
  /\ Cardinality(InFlight) < flight

\* request r arrives with handler state q: the requests in flight are no
\* longer alone
Arrive(r, q) ==
  /\ req' = [x \in ReqIds |-> IF x = r THEN [q EXCEPT !.alone = (InFlight = {})]
                              ELSE IF x \in InFlight THEN [req[x] EXCEPT !.alone = FALSE]
                              ELSE req[x]]
  /\ UNCHANGED lastResponse

\* the most recent response: the request's kind and the status code sent;
\* for a castVote answered at the candidate check, the candidate id it named
\* and whether a Candidate document was stored under it
NoResponse == [kind |-> "none", status |-> 0, cand |-> NoCand, found |-> FALSE]

\* request r, which names candidate c, arrives and is answered at once
ArriveRespond(r, kind, code, c) ==
  /\ req' = [x \in ReqIds |-> IF x = r THEN Done
                              ELSE IF x \in InFlight THEN [req[x] EXCEPT !.alone = FALSE]
                              ELSE req[x]]
  /\ lastResponse' = [kind |-> kind, status |-> code, cand |-> c, found |-> CandidateExists(c)]

\* res.status(code).json(...): the response of request r is sent and the
\* handler returns
Respond(r, code) ==
  /\ req' = [req EXCEPT ![r] = Done]
  /\ lastResponse' = [NoResponse EXCEPT !.kind = req[r].kind, !.status = code]

\* the handler of request r goes on to the await `label`
Goto(r, label) ==
  /\ req' = [req EXCEPT ![r].pc = label]
  /\ UNCHANGED lastResponse

\* the GET /votes/results/:position handler: pc, the position asked for, the
\* candidates it loaded and the body it sent last
NoQuery == [pc |-> "idle", pos |-> NoPos, candidates |-> << >>,
            results |-> << >>, totalVotes |-> 0, totalCandidates |-> 0]

\* what is kept of a first GET /votes/results/:position request: the
\* position, the store when it was handled and, once the same position is
\* asked for again, the response that was sent
NoPrev == [sent |-> FALSE, pos |-> NoPos, body |-> << >>, cand |-> << >>, votes |-> {}]

\* the client addresses of rateLimitAuth, and an address without an entry
\* in the authAttempts Map
Ips == {"ip1", "ip2"}
NoAttempt == [has |-> FALSE, count |-> 0, resetTime |-> 0]

\* no GET /votes/stats/admin under way, none answered
NoStats == [pc |-> "idle", totalVotes |-> 0, validVotes |-> 0, invalidVotes |-> 0]

\* The two SocketProvider components of src/unnamed/part_002: the first
\* passes no reconnection options and keeps no connectionError, the second
\* passes reconnectionAttempts: 5 and keeps connectionError.
Providers == {"basic", "enhanced"}

\* The browser client after SocketProvider has created its socket with
\* autoConnect: the manager is opening the connection, the React state is
\* as useState initialises it, no position is selected and no effect of
\* the Voting page is mounted.
\*   provider         which SocketProvider is built
\*   mgr              the socket.io Manager: "none" (no socket created),
\*                    "opening" (a connect() is under way), "open",
\*                    "reconnecting" (automatic attempts), "idle" (closed
\*                    and not trying)
\*   attempts         the Manager's count of automatic attempts
\*   isConnected, connectionError    the state of SocketProvider
\*   selected         selectedPosition of the Voting page
\*   stale            a state change has not been rendered yet
\*   effect           the position and the isConnected that the mounted
\*                    effect of the Voting page has captured
\*   sendBuffer       events emitted while the socket was not connected
\*   wire             events sent on the connection and not yet handled
NoError == "null"
NewClient(provider) ==
  [provider |-> provider, mgr |-> "opening", attempts |-> 0,
   isConnected |-> FALSE, connectionError |-> NoError,
   selected |-> NoPos, stale |-> FALSE,
   effect |-> [pos |-> NoPos, isConnected |-> FALSE],
   sendBuffer |-> << >>, wire |-> << >>]

\* the browser client before the user is authenticated: SocketProvider has
\* created no socket
NoClient == [NewClient("none") EXCEPT !.mgr = "none"]

\* A User document: isActive defaults to true, lastLogin to Date.now() at
\* registration, which is one unit before time 0.
NewUser(role) == [role |-> role, isActive |-> TRUE, lastLogin |-> 0 - 1]

\* A bearer token as the auth middleware sees it: present or not, whether
\* its signature verifies, the userId and iat claims, and whether it has an
\* exp claim (iat + 7d, as jwt.sign(..., { expiresIn: '7d' }) sets it).
NoToken == [present |-> FALSE, signed |-> FALSE, userId |-> NoVoter, iat |-> 0, hasExp |-> FALSE]

\* a client that is not connected: in no room, nothing received
NoSocket == [connected |-> FALSE, rooms |-> {}, inbox |-> << >>]

\* votes.js 64: io.to(room).emit('vote-updated', ev): the event goes to the
\* sockets that are in the room now; nothing is stored for the others
Emit(room, ev) ==
  [s \in Sockets |-> IF room \in sockets[s].rooms
                     THEN [sockets[s] EXCEPT !.inbox = Append(@, ev)]
                     ELSE sockets[s]]

Init ==
  /\ voteModel \in {"basic", "enhanced"}
  /\ cand = [c \in Cands |-> AbsentCandidate]
  /\ votes = {}
  /\ userTotal = [v \in UserIds |-> 0]
  /\ req = [r \in ReqIds |-> IdleReq]
  /\ events = << >>
  /\ lastResponse = NoResponse
  /\ resQ = NoQuery
  /\ sockets = [s \in Sockets |-> NoSocket]
  /\ users = [u \in UserIds |-> NewUser(IF u \in Admins THEN "admin" ELSE "user")]
  /\ now = 0
  /\ lastToken = NoToken
  /\ authAttempts = [ip \in Ips |-> NoAttempt]
  /\ attemptLog = [ip \in Ips |-> << >>]
  /\ prevQ = NoPrev
  /\ client = NoClient
  /\ statsQ = NoStats

\* votes.js 10-33: POST /votes of an authenticated voter with body
\* { candidateId, position }.  Candidate.findById; a missing or inactive
\* candidate is answered 404, otherwise the loaded document is kept.
SubmitVote(r, v, c, p, slots, flight) ==
  /\ NextSlot(r, slots, flight)
  /\ IF ~CandidateAvailable(c)
     THEN ArriveRespond(r, "cast", 404, c)
     ELSE Arrive(r, [IdleReq EXCEPT !.kind = "cast", !.pc = "findVote", !.voter = v, !.pos = p,
                                    !.cand = c, !.snap = cand[c].voteCount,
                                    !.count0 = cand[c].voteCount])
  /\ UNCHANGED <<voteModel, cand, votes, userTotal, events, resQ>>
  /\ UNCHANGED envVars

\* votes.js 35-45: Vote.findOne({ voter, position }); an existing vote is
\* answered 400.  Otherwise vote.save() starts (its pre('save') hooks first).
SubmitVote_FindExisting(r) ==
  /\ req[r].kind = "cast" /\ req[r].pc = "findVote"
  /\ IF ExistingVote(req[r].voter, req[r].pos) # {}
     THEN Respond(r, 400)
     ELSE Goto(r, IF HasStatsHook THEN "hookCand" ELSE "insert")
  /\ UNCHANGED <<voteModel, cand, votes, userTotal, events, resQ>>
  /\ UNCHANGED envVars

\* the statistics hook without its decrement branch
HookDelta_NoDecrement(r) == IF req[r].kind = "cast" THEN 1 ELSE 0

\* the counter change the statistics hook applies for the save in progress:
\* +1 for a new valid vote, -1 for a vote whose isValid was set to false
HookDelta(r) == IF req[r].kind = "cast" THEN 1 ELSE -1

\* Vote pre('save') statistics hook, first await:
\* Candidate.findByIdAndUpdate(this.candidate, { $inc: { voteCount: +-1 } })
VoteHook_IncCandidate(r) ==
  /\ req[r].pc = "hookCand"
  /\ cand' = IncVoteCount(cand, req[r].cand, HookDelta(r))
  /\ Goto(r, "hookUser")
  /\ UNCHANGED <<voteModel, votes, userTotal, events, resQ>>
  /\ UNCHANGED envVars

\* Vote pre('save') statistics hook, second await:
\* User.findByIdAndUpdate(this.voter, { $inc: { 'stats.totalVotes': +-1 } })
VoteHook_IncUser(r) ==
  /\ req[r].pc = "hookUser"
  /\ userTotal' = [userTotal EXCEPT ![req[r].voter] = @ + HookDelta(r)]
  /\ Goto(r, IF req[r].kind = "cast" THEN "insert" ELSE "update")
  /\ UNCHANGED <<voteModel, cand, votes, events, resQ>>
  /\ UNCHANGED envVars

\* votes.js 56: the insert of vote.save().  The unique index rejects a second
\* Vote of the same voter and position; the rejection is an exception, which
\* the handler's catch answers with 500.
SubmitVote_Insert(r) ==
  /\ req[r].kind = "cast" /\ req[r].pc = "insert"
  /\ IF UniqueIndexAccepts(req[r].voter, req[r].pos)
     THEN /\ votes' = votes \cup {NewVote(r, req[r].voter, req[r].cand, req[r].pos)}
          /\ Goto(r, "saveCand")
     ELSE /\ votes' = votes
          /\ Respond(r, 500)
  /\ UNCHANGED <<voteModel, cand, userTotal, events, resQ>>
  /\ UNCHANGED envVars

\* candidate.save() of a loaded document whose voteCount was set to newCount:
\* the pre('save') hook runs first; a save that passes the hook writes the
\* modified field, and fails when the document is no longer stored
CandidateSave(c, loaded, newCount) ==
  LET modified == newCount # loaded IN
  IF CandidatePreSave(modified) # "ok"
  THEN [ok |-> FALSE, cand |-> cand, returns |-> CandidatePreSave(modified) # "unbounded"]
  ELSE IF ~modified THEN [ok |-> TRUE, cand |-> cand, returns |-> TRUE]
  ELSE IF ~CandidateExists(c) THEN [ok |-> FALSE, cand |-> cand, returns |-> TRUE]
  ELSE [ok |-> TRUE, cand |-> [cand EXCEPT ![c].voteCount = newCount], returns |-> TRUE]

\* votes.js 58-83: candidate.voteCount += 1; candidate.save(); then the
\* vote-updated event is emitted to the position's room and 201 is sent.
\* A rejected save is answered 500 by the catch.
SubmitVote_SaveCandidate(r) ==
  /\ req[r].kind = "cast" /\ req[r].pc = "saveCand"
  /\ LET c == req[r].cand
         newCount == req[r].snap + 1
         saved == CandidateSave(c, req[r].snap, newCount)
         ev == [position |-> req[r].pos, candidateId |-> c, voteCount |-> newCount,
                totalVotes |-> CountPosition(req[r].pos)]
     IN /\ saved.returns
        /\ IF saved.ok
           THEN /\ cand' = saved.cand
                /\ events' = Append(events, ev)
                /\ sockets' = Emit(req[r].pos, ev)
                /\ Respond(r, 201)
           ELSE /\ cand' = cand
                /\ events' = events
                /\ sockets' = sockets
                /\ Respond(r, 500)
  /\ UNCHANGED <<voteModel, votes, userTotal, resQ>>
  /\ UNCHANGED <<gatewayVars, prevQ, client, statsQ>>

\* the ids a PUT /votes/:id/invalidate can name: a stored vote's, or one that
\* resolves to no vote
VoteIds == {x.id : x \in votes} \cup {0}

\* votes.js 244-256: PUT /votes/:id/invalidate of an admin.  Vote.findById;
\* 404 when missing.  vote.isValid = false modifies the document only if it
\* was valid; an unmodified save writes nothing and the statistics hook passes.
InvalidateVote(r, id, slots, flight) ==
  /\ NextSlot(r, slots, flight)
  /\ IF VoteById(id) = {}
     THEN ArriveRespond(r, "inv", 404, NoCand)
     ELSE LET x == CHOOSE y \in VoteById(id) : TRUE IN
          Arrive(r, [IdleReq EXCEPT !.kind = "inv", !.vote = id, !.voter = x.voter,
                                    !.cand = x.candidate, !.pos = x.position,
                                    !.valid0 = x.isValid,
                                    !.count0 = IF CandidateExists(x.candidate)
                                               THEN cand[x.candidate].voteCount ELSE 0,
                                    !.pc = IF ~x.isValid THEN "findCand"
                                           ELSE IF HasStatsHook THEN "hookCand" ELSE "update"])
  /\ UNCHANGED <<voteModel, cand, votes, userTotal, events, resQ>>
  /\ UNCHANGED envVars

\* the invalidation as a removal of the Vote document
SetInvalid_Remove(id) == {x \in votes : x.id # id}

\* votes.js 255-256: vote.isValid = false; vote.save() updates the stored
\* document with { $set: { isValid: false } }
SetInvalid(id) == {IF x.id = id THEN [x EXCEPT !.isValid = FALSE] ELSE x : x \in votes}

\* votes.js 256: the update of vote.save()
Invalidate_Update(r) ==
  /\ req[r].kind = "inv" /\ req[r].pc = "update"
  /\ votes' = SetInvalid(req[r].vote)
  /\ Goto(r, "findCand")
  /\ UNCHANGED <<voteModel, cand, userTotal, events, resQ>>
  /\ UNCHANGED envVars

\* votes.js 259-260: Candidate.findById(vote.candidate); without a candidate
\* the handler answers 200 at once
Invalidate_FindCandidate(r) ==
  /\ req[r].kind = "inv" /\ req[r].pc = "findCand"
  /\ IF CandidateExists(req[r].cand)
     THEN /\ req' = [req EXCEPT ![r].pc = "saveCand", ![r].snap = cand[req[r].cand].voteCount]
          /\ UNCHANGED lastResponse
     ELSE Respond(r, 200)
  /\ UNCHANGED <<voteModel, cand, votes, userTotal, events, resQ>>
  /\ UNCHANGED envVars

\* votes.js 261-269: candidate.voteCount = Math.max(0, voteCount - 1);
\* candidate.save(); 200, or 500 when the save is rejected
Invalidate_SaveCandidate(r) ==
  /\ req[r].kind = "inv" /\ req[r].pc = "saveCand"
  /\ LET saved == CandidateSave(req[r].cand, req[r].snap, Max(0, req[r].snap - 1))
     IN /\ saved.returns
        /\ cand' = saved.cand
        /\ Respond(r, IF saved.ok THEN 200 ELSE 500)
  /\ UNCHANGED <<voteModel, votes, userTotal, events, resQ>>
  /\ UNCHANGED envVars

\* POST /candidates (admin): a new Candidate for position p
CreateCandidate(c, p) ==
  /\ cand[c].st = "absent"
  /\ cand' = [cand EXCEPT ![c] = NewCandidate(p)]
  /\ UNCHANGED <<voteModel, votes, userTotal, req, events, lastResponse, resQ>>
  /\ UNCHANGED envVars

\* PUT /candidates/:id (admin): findByIdAndUpdate of position and isActive
UpdateCandidate(c, p, a) ==
  /\ CandidateExists(c)
  /\ cand[c].position # p \/ cand[c].isActive # a
  /\ cand' = [cand EXCEPT ![c].position = p, ![c].isActive = a]
  /\ UNCHANGED <<voteModel, votes, userTotal, req, events, lastResponse, resQ>>
  /\ UNCHANGED envVars

\* DELETE /candidates/:id (admin): findByIdAndDelete; no document hook runs
DeleteCandidate(c) ==
  /\ CandidateExists(c)
  /\ cand' = [cand EXCEPT ![c] = [AbsentCandidate EXCEPT !.st = "deleted"]]
  /\ UNCHANGED <<voteModel, votes, userTotal, req, events, lastResponse, resQ>>
  /\ UNCHANGED envVars

(* ---------------------------------------------------------------------- *)
(* GET /votes/results/:position                                            *)
(* ---------------------------------------------------------------------- *)

\* Candidate.find({ position, isActive: true })
ActiveCandidates(p) == {c \in Cands : CandidateExists(c) /\ cand[c].position = p /\ cand[c].isActive}

\* .sort({ voteCount: -1 }): the orders the find may return the candidates
\* of S in, by falling voteCount.  The sort key is the voteCount alone, and
\* the store does not fix the order of documents of equal key, not even
\* from one execution of the query to the next.
RECURSIVE SortByVoteCount(_)
SortByVoteCount(S) ==
  IF S = {} THEN {<< >>}
  ELSE UNION {{<<[id |-> first, voteCount |-> cand[first].voteCount]>> \o rest :
                 rest \in SortByVoteCount(S \ {first})} :
              first \in {c \in S : \A d \in S : cand[c].voteCount >= cand[d].voteCount}}

\* n / d rounded to the nearest integer, halves away from zero (d > 0)
RoundDiv(n, d) ==
  IF n >= 0 THEN (2 * n + d) \div (2 * d) ELSE 0 - ((2 * (0 - n) + d) \div (2 * d))

\* ((voteCount / totalVotes) * 100).toFixed(2), in hundredths of a percent;
\* a division by zero gives Infinity or NaN, which is not a finite number
Percent(voteCount, totalVotes) ==
  IF totalVotes = 0 THEN [finite |-> FALSE, value |-> 0]
  ELSE [finite |-> TRUE, value |-> RoundDiv(voteCount * 10000, totalVotes)]

\* votes.js 109 with the guard on the candidate's voteCount
Percentage_GuardOnVoteCount(voteCount, totalVotes) ==
  IF voteCount > 0 THEN Percent(voteCount, totalVotes) ELSE [finite |-> TRUE, value |-> 0]

\* votes.js 109: totalVotes > 0 ? ((voteCount / totalVotes) * 100).toFixed(2) : 0
Percentage(voteCount, totalVotes) ==
  IF totalVotes > 0 THEN Percent(voteCount, totalVotes) ELSE [finite |-> TRUE, value |-> 0]

\* votes.js 102-117: the response body for the loaded candidates and the
\* counted votes
ResultsBody(candidates, totalVotes) ==
  [results |-> [i \in 1..Len(candidates) |->
                  [id |-> candidates[i].id,
                   voteCount |-> candidates[i].voteCount,
                   percentage |-> Percentage(candidates[i].voteCount, totalVotes)]],
   totalVotes |-> totalVotes,
   totalCandidates |-> Len(candidates)]

\* votes.js 87-96: the handler loads the active candidates of the position,
\* sorted by voteCount
GetResults(p) ==
  /\ resQ.pc \in {"idle", "done"}
  /\ \E candidates \in SortByVoteCount(ActiveCandidates(p)) :
       resQ' = [NoQuery EXCEPT !.pc = "count", !.pos = p, !.candidates = candidates]
  /\ UNCHANGED <<voteModel, cand, votes, userTotal, req, events, lastResponse>>
  /\ UNCHANGED envVars

\* votes.js 98-117: Vote.countDocuments({ position }), the percentages and
\* the response body
GetResults_Count ==
  /\ resQ.pc = "count"
  /\ LET body == ResultsBody(resQ.candidates, CountPosition(resQ.pos)) IN
     resQ' = [resQ EXCEPT !.pc = "done", !.results = body.results,
                          !.totalVotes = body.totalVotes,
                          !.totalCandidates = body.totalCandidates]
  /\ UNCHANGED <<voteModel, cand, votes, userTotal, req, events, lastResponse>>
  /\ UNCHANGED envVars

\* the body of the response that was sent last
SentBody == [results |-> resQ.results, totalVotes |-> resQ.totalVotes,
             totalCandidates |-> resQ.totalCandidates]

\* votes.js 87-96, asked by a client that will ask again: prevQ notes the
\* position and the store as it is when the first request is handled
GetResults_Kept(p) ==
  /\ resQ.pc \in {"idle", "done"}
  /\ \E candidates \in SortByVoteCount(ActiveCandidates(p)) :
       resQ' = [NoQuery EXCEPT !.pc = "count", !.pos = p, !.candidates = candidates]
  /\ prevQ' = [NoPrev EXCEPT !.pos = p, !.cand = cand, !.votes = votes]
  /\ UNCHANGED <<voteModel, cand, votes, userTotal, req, events, lastResponse>>
  /\ UNCHANGED <<sockets, gatewayVars, client, statsQ>>

\* votes.js 87-96, the same client asking again for the same position: prevQ
\* keeps the response it got to the first request
GetResults_Again ==
  /\ resQ.pc = "done" /\ prevQ.pos = resQ.pos /\ ~prevQ.sent
  /\ \E candidates \in SortByVoteCount(ActiveCandidates(prevQ.pos)) :
       resQ' = [NoQuery EXCEPT !.pc = "count", !.pos = prevQ.pos, !.candidates = candidates]
  /\ prevQ' = [prevQ EXCEPT !.sent = TRUE, !.body = SentBody]
  /\ UNCHANGED <<voteModel, cand, votes, userTotal, req, events, lastResponse>>
  /\ UNCHANGED <<sockets, gatewayVars, client, statsQ>>

\* the steps of the POST /votes handlers in flight, and of the Vote
\* pre('save') hook
CastStep ==
  \/ \E r \in ReqIds : SubmitVote_FindExisting(r)
  \/ \E r \in ReqIds : VoteHook_IncCandidate(r)
  \/ \E r \in ReqIds : VoteHook_IncUser(r)
  \/ \E r \in ReqIds : SubmitVote_Insert(r)
  \/ \E r \in ReqIds : SubmitVote_SaveCandidate(r)

\* the steps of the PUT /votes/:id/invalidate handlers in flight
InvalidateStep ==
  \/ \E r \in ReqIds : Invalidate_Update(r)
  \/ \E r \in ReqIds : Invalidate_FindCandidate(r)
  \/ \E r \in ReqIds : Invalidate_SaveCandidate(r)

\* the steps of the handlers in flight
Step == CastStep \/ InvalidateStep

Next ==
  \/ \E r \in ReqIds, v \in Voters, c \in Cands, p \in Positions :
       SubmitVote(r, v, c, p, MaxReq, MaxInFlight)
  \/ \E r \in ReqIds, id \in VoteIds : InvalidateVote(r, id, MaxReq, MaxInFlight)
  \/ Step
  \/ \E c \in Cands, p \in Positions : CreateCandidate(c, p)
  \/ \E c \in Cands, p \in Positions, a \in BOOLEAN : UpdateCandidate(c, p, a)
  \/ \E c \in Cands : DeleteCandidate(c)

Spec == Init /\ [][Next]_vars

\* MaxRaceReq requests, of which MaxInFlight at a time, on candidates that are
\* created and then left alone
NextRace ==
  \/ \E r \in ReqIds, v \in Voters, c \in Cands, p \in Positions :
       SubmitVote(r, v, c, p, MaxRaceReq, MaxInFlight)
  \/ \E r \in ReqIds, id \in VoteIds : InvalidateVote(r, id, MaxRaceReq, MaxInFlight)
  \/ Step
  \/ \E c \in Cands, p \in Positions : CreateCandidate(c, p)

SpecRace == Init /\ [][NextRace]_vars

\* the results query next to the casting of votes and the candidate
\* administration, with MaxQueryReq castVote requests, one at a time
NextResults ==
  \/ \E r \in ReqIds, v \in Voters, c \in Cands, p \in Positions :
       SubmitVote(r, v, c, p, MaxQueryReq, 1)
  \/ CastStep
  \/ \E c \in Cands, p \in Positions : CreateCandidate(c, p)
  \/ \E c \in Cands, p \in Positions, a \in BOOLEAN : UpdateCandidate(c, p, a)
  \/ \E c \in Cands : DeleteCandidate(c)
  \/ \E p \in Positions : GetResults(p)
  \/ GetResults_Count

SpecResults == Init /\ [][NextResults]_vars

\* MaxRevoteReq requests one after the other on candidates that are created
\* and then left alone: a vote is cast, invalidated, and cast again
NextRevote ==
  \/ \E r \in ReqIds, v \in Voters, c \in Cands, p \in Positions :
       SubmitVote(r, v, c, p, MaxRevoteReq, 1)
  \/ \E r \in ReqIds, id \in VoteIds : InvalidateVote(r, id, MaxRevoteReq, 1)
  \/ Step
  \/ \E c \in Cands, p \in Positions : CreateCandidate(c, p)

SpecRevote == Init /\ [][NextRevote]_vars

\* votes.js 190-202 of GET /votes/stats/admin for an admin, without a date
\* range (dateFilter is {}): three counts, each awaited, so the handlers
\* of other requests run between them.  The first count:
AdminStats_CountTotal ==
  /\ statsQ.pc \in {"idle", "done"}
  /\ statsQ' = [NoStats EXCEPT !.pc = "valid", !.totalVotes = Cardinality(votes)]
  /\ UNCHANGED <<voteModel, cand, votes, userTotal, req, events, lastResponse, resQ>>
  /\ UNCHANGED <<sockets, gatewayVars, prevQ, client>>

\* votes.js 201: Vote.countDocuments({ isValid: true })
AdminStats_CountValid ==
  /\ statsQ.pc = "valid"
  /\ statsQ' = [statsQ EXCEPT !.pc = "invalid",
                              !.validVotes = Cardinality({x \in votes : x.isValid})]
  /\ UNCHANGED <<voteModel, cand, votes, userTotal, req, events, lastResponse, resQ>>
  /\ UNCHANGED <<sockets, gatewayVars, prevQ, client>>

\* votes.js 202-234: Vote.countDocuments({ isValid: false }), the two
\* aggregations, whose results are not modelled, and res.json
AdminStats_CountInvalid ==
  /\ statsQ.pc = "invalid"
  /\ statsQ' = [statsQ EXCEPT !.pc = "done",
                              !.invalidVotes = Cardinality({x \in votes : ~x.isValid})]
  /\ lastResponse' = [NoResponse EXCEPT !.kind = "adminStats", !.status = 200]
  /\ UNCHANGED <<voteModel, cand, votes, userTotal, req, events, resQ>>
  /\ UNCHANGED <<sockets, gatewayVars, prevQ, client>>

\* MaxSaveReq requests, one at a time, on candidates that are created and
\* then left alone
NextSave ==
  \/ \E r \in ReqIds, v \in Voters, c \in Cands, p \in Positions :
       SubmitVote(r, v, c, p, MaxSaveReq, 1)
  \/ \E r \in ReqIds, id \in VoteIds : InvalidateVote(r, id, MaxSaveReq, 1)
  \/ Step
  \/ \E c \in Cands, p \in Positions : CreateCandidate(c, p)

SpecSave == Init /\ [][NextSave]_vars

\* node runs the continuation of every handler that awaits
SpecSaveFair == SpecSave /\ WF_vars(Step)

\* the admin's vote statistics next to MaxStatsReq requests, one at a time,
\* on candidates that are created and then left alone
NextStats ==
  \/ \E r \in ReqIds, v \in Voters, c \in Cands, p \in Positions :
       SubmitVote(r, v, c, p, MaxStatsReq, 1)
  \/ \E r \in ReqIds, id \in VoteIds : InvalidateVote(r, id, MaxStatsReq, 1)
  \/ Step
  \/ \E c \in Cands, p \in Positions : CreateCandidate(c, p)
  \/ AdminStats_CountTotal
  \/ AdminStats_CountValid
  \/ AdminStats_CountInvalid

SpecStats == Init /\ [][NextStats]_vars

\* MaxPairReq requests, of which MaxInFlight at a time, on candidates that
\* are created and then left alone
NextPair ==
  \/ \E r \in ReqIds, v \in Voters, c \in Cands, p \in Positions :
       SubmitVote(r, v, c, p, MaxPairReq, MaxInFlight)
  \/ \E r \in ReqIds, id \in VoteIds : InvalidateVote(r, id, MaxPairReq, MaxInFlight)
  \/ Step
  \/ \E c \in Cands, p \in Positions : CreateCandidate(c, p)

SpecPair == Init /\ [][NextPair]_vars

(* ---------------------------------------------------------------------- *)
(* socket.io connections and rooms                                         *)
(* ---------------------------------------------------------------------- *)

ledgerVars == <<voteModel, cand, votes, userTotal, req, events, lastResponse, resQ>>

connVars == <<ledgerVars, gatewayVars, prevQ, client, statsQ>>

\* io.on('connection'): a new socket, in no room
Connect(s) ==
  /\ ~sockets[s].connected
  /\ sockets' = [sockets EXCEPT ![s] = [NoSocket EXCEPT !.connected = TRUE,
                                                        !.inbox = sockets[s].inbox]]
  /\ UNCHANGED connVars

\* socket.on('disconnect'): the socket has left every room
Disconnect(s) ==
  /\ sockets[s].connected
  /\ sockets' = [sockets EXCEPT ![s].connected = FALSE, ![s].rooms = {}]
  /\ UNCHANGED connVars

\* socket.on('join-vote-room', voteId): socket.join(`vote-${voteId}`)
JoinVoteRoom(s, p) ==
  /\ sockets[s].connected /\ p \notin sockets[s].rooms
  /\ sockets' = [sockets EXCEPT ![s].rooms = @ \cup {p}]
  /\ UNCHANGED connVars

\* socket.on('leave-vote-room', voteId): socket.leave(`vote-${voteId}`)
LeaveVoteRoom(s, p) ==
  /\ sockets[s].connected /\ p \in sockets[s].rooms
  /\ sockets' = [sockets EXCEPT ![s].rooms = @ \ {p}]
  /\ UNCHANGED connVars

\* socket.on('join-analytics-room'): socket.join('analytics-room')
JoinAnalyticsRoom(s) ==
  /\ sockets[s].connected /\ AnalyticsRoom \notin sockets[s].rooms
  /\ sockets' = [sockets EXCEPT ![s].rooms = @ \cup {AnalyticsRoom}]
  /\ UNCHANGED connVars

\* socket.on('leave-analytics-room'): socket.leave('analytics-room')
LeaveAnalyticsRoom(s) ==
  /\ sockets[s].connected /\ AnalyticsRoom \in sockets[s].rooms
  /\ sockets' = [sockets EXCEPT ![s].rooms = @ \ {AnalyticsRoom}]
  /\ UNCHANGED connVars

\* MaxFanoutReq ledger requests one after the other, on candidates that are
\* created and then left alone, while clients connect, join and leave rooms
NextFanout ==
  \/ \E r \in ReqIds, v \in Voters, c \in Cands, p \in Positions :
       SubmitVote(r, v, c, p, MaxFanoutReq, 1)
  \/ \E r \in ReqIds, id \in VoteIds : InvalidateVote(r, id, MaxFanoutReq, 1)
  \/ Step
  \/ \E c \in Cands, p \in Positions : CreateCandidate(c, p)
  \/ \E s \in Sockets : Connect(s)
  \/ \E s \in Sockets : Disconnect(s)
  \/ \E s \in Sockets, p \in Positions : JoinVoteRoom(s, p)
  \/ \E s \in Sockets, p \in Positions : LeaveVoteRoom(s, p)
  \/ \E s \in Sockets : JoinAnalyticsRoom(s)
  \/ \E s \in Sockets : LeaveAnalyticsRoom(s)

SpecFanout == Init /\ [][NextFanout]_vars

(* ---------------------------------------------------------------------- *)
(* The auth middleware and the routes behind it                            *)
(* ---------------------------------------------------------------------- *)

\* the users that hold tokens
TokenUsers == {"v1", "a1"}

\* a token issued at time 0 for user u, with an exp claim
FreshToken(u) == [present |-> TRUE, signed |-> TRUE, userId |-> u, iat |-> 0, hasExp |-> TRUE]

\* the tokens requests arrive with: none, a forged one, one without userId,
\* one of a user that is not stored, fresh ones, one without exp that is
\* seven days old at time 0, and one with exp that is five minutes younger
Tokens ==
  {NoToken,
   [FreshToken("a1") EXCEPT !.signed = FALSE],
   FreshToken(NoVoter),
   FreshToken(GoneUser),
   [FreshToken("v1") EXCEPT !.iat = 0 - MaxAge, !.hasExp = FALSE],
   [FreshToken("v1") EXCEPT !.iat = 1 - MaxAge]}
  \cup {FreshToken(u) : u \in TokenUsers}

\* jwt.verify(token, secret): the signature verifies and the exp claim, if
\* there is one, has not been reached
Verifies(tok) == tok.signed /\ (tok.hasExp => now < tok.iat + MaxAge)

\* User.findById(decoded.userId) resolves to a document
UserExists(u) == u \in UserIds

\* auth without the isActive check
AuthCheck_NoActiveCheck(tok) ==
  IF ~tok.present THEN "NO_TOKEN"
  ELSE IF ~tok.signed THEN "INVALID_TOKEN"
  ELSE IF ~Verifies(tok) THEN "TOKEN_EXPIRED"
  ELSE IF tok.userId = NoVoter THEN "INVALID_TOKEN_FORMAT"
  ELSE IF ~UserExists(tok.userId) THEN "USER_NOT_FOUND"
  ELSE IF now - tok.iat > MaxAge THEN "TOKEN_EXPIRED"
  ELSE "ok"

\* auth, User.js 619-674: the checks in the order of the code; every failure
\* is answered 401 with the code returned here
AuthCheck(tok) ==
  IF ~tok.present THEN "NO_TOKEN"
  ELSE IF ~tok.signed THEN "INVALID_TOKEN"
  ELSE IF ~Verifies(tok) THEN "TOKEN_EXPIRED"
  ELSE IF tok.userId = NoVoter THEN "INVALID_TOKEN_FORMAT"
  ELSE IF ~UserExists(tok.userId) THEN "USER_NOT_FOUND"
  ELSE IF ~users[tok.userId].isActive THEN "ACCOUNT_DEACTIVATED"
  ELSE IF now - tok.iat > MaxAge THEN "TOKEN_EXPIRED"
  ELSE "ok"

\* auth, User.js 678: !user.lastLogin || Date.now() - lastLogin > threshold
LastLoginStale(u) == now - users[u].lastLogin > LastLoginThreshold

\* auth, User.js 679: User.findByIdAndUpdate(user._id, { lastLogin: new Date() })
TouchLastLogin(u) == [users EXCEPT ![u].lastLogin = now]

\* req.user.role === 'admin' (votes.js 186, 246; adminAuth, User.js 718)
IsAdmin(u) == users[u].role = "admin"

\* the routes behind auth or adminAuth, by the kind of their requests
AdminKinds == {"inv", "adminStats", "behavior", "candCreate", "candUpdate", "candDelete"}
QueryKinds == {"history", "dashboard", "adminStats"}
AuthKinds == {"cast"} \cup AdminKinds \cup QueryKinds

\* the caller of request r while it is in the middleware
InAuth(r) == req[r].pc \in {"lastLogin", "next"}

\* auth, User.js 619-680: a request of the given kind arrives with token tok.
\* The token is verified, the user loaded and checked; a failure is answered
\* 401.  Otherwise req.user is set, and lastLogin is updated if it is stale.
Auth(r, kind, tok, slots, flight) ==
  /\ NextSlot(r, slots, flight)
  /\ lastToken' = tok
  /\ IF AuthCheck(tok) # "ok"
     THEN /\ req' = [req EXCEPT ![r] = Done]
          /\ lastResponse' = [NoResponse EXCEPT !.kind = kind, !.status = 401]
     ELSE Arrive(r, [IdleReq EXCEPT !.kind = kind, !.voter = tok.userId,
                                    !.pc = IF LastLoginStale(tok.userId)
                                           THEN "lastLogin" ELSE "next"])
  /\ UNCHANGED <<voteModel, cand, votes, userTotal, events, resQ, sockets, users, now>>
  /\ UNCHANGED <<limiterVars, prevQ, client, statsQ>>

\* auth, User.js 679-682: the lastLogin update, then next()
Auth_UpdateLastLogin(r) ==
  /\ req[r].pc = "lastLogin"
  /\ users' = TouchLastLogin(req[r].voter)
  /\ Goto(r, "next")
  /\ UNCHANGED <<voteModel, cand, votes, userTotal, events, resQ, sockets, now, lastToken>>
  /\ UNCHANGED <<limiterVars, prevQ, client, statsQ>>

\* votes.js 17-33: the POST /votes handler, entered from auth with
\* req.user set: the candidate check
Auth_SubmitVote(r, c, p) ==
  /\ req[r].kind = "cast" /\ req[r].pc = "next"
  /\ IF ~CandidateAvailable(c)
     THEN Respond(r, 404)
     ELSE /\ req' = [req EXCEPT ![r].pc = "findVote", ![r].pos = p, ![r].cand = c,
                                ![r].snap = cand[c].voteCount,
                                ![r].count0 = cand[c].voteCount]
          /\ UNCHANGED lastResponse
  /\ UNCHANGED <<voteModel, cand, votes, userTotal, events, resQ>>
  /\ UNCHANGED envVars

\* votes.js 244-256: the PUT /votes/:id/invalidate handler, entered from
\* auth: the role check, then Vote.findById
Auth_InvalidateVote(r, id) ==
  /\ req[r].kind = "inv" /\ req[r].pc = "next"
  /\ IF ~IsAdmin(req[r].voter) THEN Respond(r, 403)
     ELSE IF VoteById(id) = {} THEN Respond(r, 404)
     ELSE LET x == CHOOSE y \in VoteById(id) : TRUE IN
          /\ req' = [req EXCEPT ![r].vote = id, ![r].voter = x.voter,
                                ![r].cand = x.candidate, ![r].pos = x.position,
                                ![r].valid0 = x.isValid,
                                ![r].count0 = IF CandidateExists(x.candidate)
                                              THEN cand[x.candidate].voteCount ELSE 0,
                                ![r].pc = IF ~x.isValid THEN "findCand"
                                          ELSE IF HasStatsHook THEN "hookCand" ELSE "update"]
          /\ UNCHANGED lastResponse
  /\ UNCHANGED <<voteModel, cand, votes, userTotal, events, resQ>>
  /\ UNCHANGED envVars

\* votes.js 125-148, 502: GET /votes/history and GET /analytics/dashboard,
\* entered from auth: reads only
Auth_Query(r) ==
  /\ req[r].kind \in {"history", "dashboard"} /\ req[r].pc = "next"
  /\ Respond(r, 200)
  /\ UNCHANGED <<voteModel, cand, votes, userTotal, events, resQ>>
  /\ UNCHANGED envVars

\* votes.js 184-241: GET /votes/stats/admin, entered from auth: the role
\* check, then reads only
Auth_AdminStats(r) ==
  /\ req[r].kind = "adminStats" /\ req[r].pc = "next"
  /\ Respond(r, IF IsAdmin(req[r].voter) THEN 200 ELSE 403)
  /\ UNCHANGED <<voteModel, cand, votes, userTotal, events, resQ>>
  /\ UNCHANGED envVars

\* adminAuth, User.js 708-734, before GET /analytics/users/behavior
\* (votes.js 919): the role check, then reads only
AdminAuth_UserBehavior(r) ==
  /\ req[r].kind = "behavior" /\ req[r].pc = "next"
  /\ Respond(r, IF IsAdmin(req[r].voter) THEN 200 ELSE 403)
  /\ UNCHANGED <<voteModel, cand, votes, userTotal, events, resQ>>
  /\ UNCHANGED envVars

\* adminAuth before POST /candidates (votes.js 334-381): the role check,
\* then the new Candidate is saved
AdminAuth_CreateCandidate(r, c, p) ==
  /\ req[r].kind = "candCreate" /\ req[r].pc = "next"
  /\ cand[c].st = "absent"
  /\ IF IsAdmin(req[r].voter)
     THEN cand' = [cand EXCEPT ![c] = NewCandidate(p)] /\ Respond(r, 201)
     ELSE cand' = cand /\ Respond(r, 403)
  /\ UNCHANGED <<voteModel, votes, userTotal, events, resQ>>
  /\ UNCHANGED envVars

\* adminAuth before PUT /candidates/:id (votes.js 384-439): the role check,
\* then findByIdAndUpdate; 404 when the id does not resolve
AdminAuth_UpdateCandidate(r, c, p, a) ==
  /\ req[r].kind = "candUpdate" /\ req[r].pc = "next"
  /\ IF ~IsAdmin(req[r].voter) THEN cand' = cand /\ Respond(r, 403)
     ELSE IF ~CandidateExists(c) THEN cand' = cand /\ Respond(r, 404)
     ELSE /\ cand' = [cand EXCEPT ![c].position = p, ![c].isActive = a]
          /\ Respond(r, 200)
  /\ UNCHANGED <<voteModel, votes, userTotal, events, resQ>>
  /\ UNCHANGED envVars

\* adminAuth before DELETE /candidates/:id (votes.js 442-454): the role
\* check, then findByIdAndDelete; 404 when the id does not resolve
AdminAuth_DeleteCandidate(r, c) ==
  /\ req[r].kind = "candDelete" /\ req[r].pc = "next"
  /\ IF ~IsAdmin(req[r].voter) THEN cand' = cand /\ Respond(r, 403)
     ELSE IF ~CandidateExists(c) THEN cand' = cand /\ Respond(r, 404)
     ELSE /\ cand' = [cand EXCEPT ![c] = [AbsentCandidate EXCEPT !.st = "deleted"]]
          /\ Respond(r, 200)
  /\ UNCHANGED <<voteModel, votes, userTotal, events, resQ>>
  /\ UNCHANGED envVars

\* votes.js 151-181: GET /votes/stats/overview, without auth: reads only
OverviewStats ==
  /\ lastResponse.kind # "overview"
  /\ lastResponse' = [NoResponse EXCEPT !.kind = "overview", !.status = 200]
  /\ UNCHANGED <<voteModel, cand, votes, userTotal, req, events, resQ>>
  /\ UNCHANGED envVars

\* the user administration sets a user's isActive
SetUserActive(u, a) ==
  /\ users[u].isActive # a
  /\ users' = [users EXCEPT ![u].isActive = a]
  /\ UNCHANGED <<ledgerVars, sockets, now, lastToken, limiterVars, prevQ, client, statsQ>>

\* Date.now() moves on by one unit, up to limit
Tick(limit) ==
  /\ now < limit
  /\ now' = now + 1
  /\ UNCHANGED <<ledgerVars, sockets, users, lastToken, limiterVars, prevQ, client, statsQ>>

\* rateLimitAuth, User.js 607: attempt.count >= maxAttempts, with > for >=
RateLimited_OneMore(attempt) == attempt.count > MaxAttempts

\* rateLimitAuth, User.js 607: attempt.count >= maxAttempts
RateLimited(attempt) == attempt.count >= MaxAttempts

\* the requests rateLimitAuth has handled so far
RECURSIVE SumLen(_)
SumLen(S) == IF S = {} THEN 0
             ELSE LET ip == CHOOSE x \in S : TRUE IN Len(attemptLog[ip]) + SumLen(S \ {ip})
Attempts == SumLen(Ips)

\* rateLimitAuth, User.js 596-600: the entry of the address, created with
\* count 0 and a window from t if there is none
Created(entry, t) ==
  IF entry.has THEN entry ELSE [has |-> TRUE, count |-> 0, resetTime |-> t + WindowMs]

\* the restart of the window that keeps the count
Restarted_KeepCount(entry, t) ==
  IF t > entry.resetTime THEN [entry EXCEPT !.resetTime = t + WindowMs] ELSE entry

\* rateLimitAuth, User.js 602-605: past resetTime the count goes back to 0
\* and a new window starts at t
Restarted(entry, t) ==
  IF t > entry.resetTime THEN [entry EXCEPT !.count = 0, !.resetTime = t + WindowMs]
  ELSE entry

\* rateLimitAuth, User.js 596-615, at time t for an address whose entry in
\* the Map is `entry`: whether next() is called, and the entry afterwards
Handled(entry, t) ==
  LET attempt == Restarted(Created(entry, t), t) IN
  IF RateLimited(attempt) THEN [next |-> FALSE, entry |-> attempt]
  ELSE [next |-> TRUE, entry |-> [attempt EXCEPT !.count = @ + 1]]

\* rateLimitAuth, User.js 590-616, for a request from address ip: the entry
\* is created if there is none, the window is restarted if now is past its
\* resetTime, and the request is answered 429 or counted and passed on
RateLimitAuth(ip) ==
  LET handled == Handled(authAttempts[ip], now)
  IN /\ Attempts < MaxRateReq
     /\ authAttempts' = [authAttempts EXCEPT ![ip] = handled.entry]
     /\ IF handled.next
        THEN /\ lastResponse' = lastResponse
             /\ attemptLog' = [attemptLog EXCEPT
                                 ![ip] = Append(@, [t |-> now, status |-> 0, next |-> TRUE])]
        ELSE /\ lastResponse' = [NoResponse EXCEPT !.kind = "login", !.status = 429]
             /\ attemptLog' = [attemptLog EXCEPT
                                 ![ip] = Append(@, [t |-> now, status |-> 429, next |-> FALSE])]
     /\ UNCHANGED <<voteModel, cand, votes, userTotal, req, events, resQ,
                    sockets, users, now, lastToken, prevQ, client, statsQ>>

\* User.js 858-866: the periodic clean-up deletes the entries whose
\* resetTime has passed
CleanupAuthAttempts ==
  /\ \E ip \in Ips : authAttempts[ip].has /\ now > authAttempts[ip].resetTime
  /\ authAttempts' = [ip \in Ips |-> IF authAttempts[ip].has /\ now > authAttempts[ip].resetTime
                                      THEN NoAttempt ELSE authAttempts[ip]]
  /\ UNCHANGED <<ledgerVars, sockets, users, now, lastToken, attemptLog, prevQ, client, statsQ>>

\* MaxRateReq requests to a route behind rateLimitAuth, while time passes
\* and the clean-up runs
NextRateLimit ==
  \/ \E ip \in Ips : RateLimitAuth(ip)
  \/ CleanupAuthAttempts
  \/ Tick(MaxRateTime)

SpecRateLimit == Init /\ [][NextRateLimit]_vars

\* MaxAuthReq castVote requests that come through the middleware, one after
\* the other, while time passes and users are deactivated and reactivated
NextAuth ==
  \/ \E r \in ReqIds, tok \in Tokens : Auth(r, "cast", tok, MaxAuthReq, 1)
  \/ \E r \in ReqIds : Auth_UpdateLastLogin(r)
  \/ \E r \in ReqIds, c \in Cands, p \in Positions : Auth_SubmitVote(r, c, p)
  \/ CastStep
  \/ \E c \in Cands, p \in Positions : CreateCandidate(c, p)
  \/ \E u \in TokenUsers, a \in BOOLEAN : SetUserActive(u, a)
  \/ Tick(MaxAuthTime)

SpecAuth == Init /\ [][NextAuth]_vars

\* MaxAdminReq requests, one after the other: castVote requests of
\* authenticated voters and requests to the admin-gated routes by users that
\* hold a good token, admin or not, while time passes
NextAdmin ==
  \/ \E r \in ReqIds, v \in Voters, c \in Cands, p \in Positions :
       SubmitVote(r, v, c, p, MaxAdminReq, 1)
  \/ \E r \in ReqIds, kind \in AdminKinds, u \in TokenUsers :
       Auth(r, kind, FreshToken(u), MaxAdminReq, 1)
  \/ \E r \in ReqIds : Auth_UpdateLastLogin(r)
  \/ \E r \in ReqIds, id \in VoteIds : Auth_InvalidateVote(r, id)
  \/ \E r \in ReqIds : Auth_AdminStats(r)
  \/ \E r \in ReqIds : AdminAuth_UserBehavior(r)
  \/ \E r \in ReqIds, c \in Cands, p \in Positions : AdminAuth_CreateCandidate(r, c, p)
  \/ \E r \in ReqIds, c \in Cands, p \in Positions, a \in BOOLEAN :
       AdminAuth_UpdateCandidate(r, c, p, a)
  \/ \E r \in ReqIds, c \in Cands : AdminAuth_DeleteCandidate(r, c)
  \/ Step
  \/ \E c \in Cands, p \in Positions : CreateCandidate(c, p)
  \/ Tick(MaxAuthTime)

SpecAdmin == Init /\ [][NextAdmin]_vars

\* the query routes: MaxQueryAuthReq requests to the ones behind auth, one
\* after the other, the results and overview queries, candidates being
\* created and time passing
NextQuery ==
  \/ \E r \in ReqIds, kind \in QueryKinds, tok \in {NoToken} \cup {FreshToken(u) : u \in TokenUsers} :
       Auth(r, kind, tok, MaxQueryAuthReq, 1)
  \/ \E r \in ReqIds : Auth_UpdateLastLogin(r)
  \/ \E r \in ReqIds : Auth_Query(r)
  \/ \E r \in ReqIds : Auth_AdminStats(r)
  \/ OverviewStats
  \/ \E p \in Positions : GetResults(p)
  \/ GetResults_Count
  \/ \E c \in Cands, p \in Positions : CreateCandidate(c, p)
  \/ Tick(MaxAuthTime)

SpecQuery == Init /\ [][NextQuery]_vars

\* the results of a position asked for twice, while candidates are created
\* and MaxRepeatReq castVote requests are handled; these writes only add to
\* the store, so that it is as it was exactly if nothing was written
NextRepeat ==
  \/ \E r \in ReqIds, v \in Voters, c \in Cands, p \in Positions :
       SubmitVote(r, v, c, p, MaxRepeatReq, 1)
  \/ CastStep
  \/ \E c \in Cands, p \in Positions : CreateCandidate(c, p)
  \/ \E p \in Positions : GetResults_Kept(p)
  \/ GetResults_Again
  \/ GetResults_Count

SpecRepeat == Init /\ [][NextRepeat]_vars

(* ---------------------------------------------------------------------- *)
(* The browser client: SocketProvider and the Voting page                  *)
(* ---------------------------------------------------------------------- *)

\* the server-side socket of the browser client's connection
ClientSocket == "s1"

\* reconnectionAttempts: 5 of the second SocketProvider; the first passes
\* none, and the Manager's default is to retry without limit
ReconnectionAttempts == 5
Limited == client.provider = "enhanced"

\* what the handlers leave alone
serverVars == <<ledgerVars, gatewayVars, prevQ, statsQ>>

\* setConnectionError(e); the first SocketProvider has no such state
SetConnectionError(e) == IF Limited THEN e ELSE NoError

\* whether a state change makes React render again
Changed(c) ==
  \/ c.isConnected # client.isConnected
  \/ c.connectionError # client.connectionError
  \/ c.selected # client.selected

\* a state change is rendered later
Updated(c) == [c EXCEPT !.stale = client.stale \/ Changed(c)]

\* the Manager schedules an automatic attempt, or gives up after
\* reconnectionAttempts of them and resets its count.  It then emits
\* reconnect_failed on the Manager; the handler of part_002 153-156 is
\* registered on the Socket, which the socket.io-client that has the named
\* export io imported at part_002 90 does not forward Manager events to,
\* so the handler is not called.
Reconnect(c) ==
  IF Limited /\ c.attempts >= ReconnectionAttempts
  THEN [c EXCEPT !.mgr = "idle", !.attempts = 0]
  ELSE [c EXCEPT !.mgr = "reconnecting",
                 !.attempts = IF Limited THEN c.attempts + 1 ELSE 0]

\* part_002 136-140: the connect_error handler
OnConnectError(c) ==
  [c EXCEPT !.isConnected = FALSE, !.connectionError = SetConnectionError("connect_error")]

\* part_002 121-125: the connect handler
OnConnect(c) ==
  [c EXCEPT !.isConnected = TRUE, !.connectionError = NoError]

\* part_002 109-119: the user is authenticated and the effect of the
\* SocketProvider that is built creates the socket, which connects
Client_CreateSocket(provider) ==
  /\ client.mgr = "none"
  /\ client' = NewClient(provider)
  /\ UNCHANGED <<sockets, serverVars>>

\* the connection is established: the server runs io.on('connection') for
\* a new socket that is in no room, the client sends what it has buffered
\* and calls the connect handler
Client_Connected ==
  /\ client.mgr \in {"opening", "reconnecting"}
  /\ client' = Updated(OnConnect([client EXCEPT !.mgr = "open", !.attempts = 0,
                                                !.wire = client.sendBuffer,
                                                !.sendBuffer = << >>]))
  /\ sockets' = [sockets EXCEPT ![ClientSocket] =
                   [NoSocket EXCEPT !.connected = TRUE, !.inbox = sockets[ClientSocket].inbox]]
  /\ UNCHANGED serverVars

\* a connect() or an automatic attempt fails: the connect_error handler
\* runs and the Manager goes on with its automatic attempts
Client_ConnectFailed ==
  /\ client.mgr \in {"opening", "reconnecting"}
  /\ client' = Updated(Reconnect(OnConnectError(client)))
  /\ UNCHANGED <<sockets, serverVars>>

\* part_002 127-134: the connection is lost or the server disconnects the
\* socket.  The server-side socket is gone with its rooms and what was on
\* the wire; the disconnect handler runs.  After a loss the Manager starts
\* its automatic attempts, after 'io server disconnect' the handler calls
\* connect().
Client_Disconnected(reason) ==
  /\ client.mgr = "open"
  /\ LET c == [client EXCEPT !.isConnected = FALSE, !.wire = << >>] IN
     client' = Updated(IF reason = "io server disconnect"
                       THEN [c EXCEPT !.mgr = "opening", !.attempts = 0]
                       ELSE Reconnect([c EXCEPT !.attempts = 0]))
  /\ sockets' = [sockets EXCEPT ![ClientSocket].connected = FALSE,
                                ![ClientSocket].rooms = {}]
  /\ UNCHANGED serverVars

\* part_002 238-242: reconnect() calls socket.connect(), which opens the
\* Manager unless the socket is connected or an attempt is under way
Client_Reconnect ==
  /\ Limited
  /\ client.mgr = "idle"
  /\ client' = [client EXCEPT !.mgr = "opening"]
  /\ UNCHANGED <<sockets, serverVars>>

\* the user selects a position on the Voting page
Client_SelectPosition(p) ==
  /\ client.mgr # "none"
  /\ client.selected # p
  /\ Len(client.wire) + Len(client.sendBuffer) < MaxWire
  /\ client' = Updated([client EXCEPT !.selected = p])
  /\ UNCHANGED <<sockets, serverVars>>

\* SocketProvider renders again for a reason of its own (its parent has
\* rendered), which gives joinVoteRoom and leaveVoteRoom new identities
Client_ProviderRenders ==
  /\ client.mgr # "none"
  /\ ~client.stale
  /\ Len(client.wire) + Len(client.sendBuffer) < MaxWire
  /\ client' = [client EXCEPT !.stale = TRUE]
  /\ UNCHANGED <<sockets, serverVars>>

\* socket.emit(type, pos): sent if the socket is connected, buffered if not
SocketEmit(c, type, pos) ==
  IF c.mgr = "open" THEN [c EXCEPT !.wire = Append(@, [type |-> type, pos |-> pos])]
  ELSE [c EXCEPT !.sendBuffer = Append(@, [type |-> type, pos |-> pos])]

\* part_002 173-189: joinVoteRoom and leaveVoteRoom emit only if the
\* isConnected of the render they were created in is true
GuardedEmit(c, isConnected, type, pos) ==
  IF isConnected THEN SocketEmit(c, type, pos) ELSE c

\* an effect that depends on the selected position alone
DepsChanged_PositionOnly == client.selected # client.effect.pos

\* Voting.js 55: the effect depends on selectedPosition, joinVoteRoom and
\* leaveVoteRoom; the two functions are created anew by every render of
\* SocketProvider (part_002 173-189, no useCallback)
DepsChanged == client.selected # client.effect.pos \/ client.stale

\* Voting.js 46-55 after a render.  When a dependency has changed the
\* effect runs again: the clean-up of the mounted effect calls the
\* leaveVoteRoom it captured for the position it captured, then the new
\* effect calls the new joinVoteRoom for the selected position.
Client_Render ==
  /\ client.stale
  /\ LET left == IF client.effect.pos = NoPos THEN client
                 ELSE GuardedEmit(client, client.effect.isConnected, "leave-vote-room",
                                  client.effect.pos)
         joined == IF client.selected = NoPos THEN left
                   ELSE GuardedEmit(left, client.isConnected, "join-vote-room",
                                    client.selected)
     IN client' = IF DepsChanged
                  THEN [joined EXCEPT !.stale = FALSE,
                                      !.effect = [pos |-> client.selected,
                                                  isConnected |-> client.isConnected]]
                  ELSE [client EXCEPT !.stale = FALSE]
  /\ UNCHANGED <<sockets, serverVars>>

\* part_004 120-128: the server handles the next event of the connection:
\* socket.join or socket.leave of the position's room
Server_Receive ==
  /\ client.wire # << >>
  /\ LET m == Head(client.wire) IN
     sockets' = [sockets EXCEPT ![ClientSocket].rooms =
                   IF m.type = "join-vote-room" THEN @ \cup {m.pos} ELSE @ \ {m.pos}]
  /\ client' = [client EXCEPT !.wire = Tail(@)]
  /\ UNCHANGED serverVars

\* the client of the Voting page: connections come and go, the user
\* selects positions and asks for a reconnect, the page renders
NextClient ==
  \/ \E provider \in Providers : Client_CreateSocket(provider)
  \/ Client_Connected
  \/ Client_ConnectFailed
  \/ \E reason \in {"transport close", "io server disconnect"} : Client_Disconnected(reason)
  \/ Client_Reconnect
  \/ \E p \in Positions : Client_SelectPosition(p)
  \/ Client_ProviderRenders
  \/ Client_Render
  \/ Server_Receive

SpecClient == Init /\ [][NextClient]_vars

\* what happens to the client from outside: the network, the user, the
\* rest of the page
Client_Environment ==
  \/ \E provider \in Providers : Client_CreateSocket(provider)
  \/ Client_Connected
  \/ Client_ConnectFailed
  \/ \E reason \in {"transport close", "io server disconnect"} : Client_Disconnected(reason)
  \/ Client_Reconnect
  \/ \E p \in Positions : Client_SelectPosition(p)
  \/ Client_ProviderRenders

\* React renders a pending state change and the server handles an event
\* it has received
SpecClientFair ==
  SpecClient /\ WF_vars(Client_Render) /\ WF_vars(Server_Receive)

(* ---------------------------------------------------------------------- *)
(* Properties                                                              *)
(* ---------------------------------------------------------------------- *)

\* request r sends its response in this step
Responds(r) == req[r].pc # "done" /\ req'[r].pc = "done"

\* C1: in every reachable state the Vote collection holds at most one Vote
\* record for each (voter, position) pair.
C1_OneVotePerVoterAndPosition ==
  \A x \in votes, y \in votes : (x.voter = y.voter /\ x.position = y.position) => x = y

\* a castVote has passed the existing-vote check and stands at its insert
\* while a Vote of the same voter and position is already stored
C1_Witness ==
  \E r \in ReqIds : /\ req[r].kind = "cast" /\ req[r].pc = "insert"
                    /\ FindVote(req[r].voter, req[r].pos) # {}

\* C2: of the castVote requests of one voter for one position, the one that
\* inserts the Vote is answered 201 and every other one that was let past
\* the candidate check is answered 400, also one that lost at the insert.
C2_Original ==
  [][\A r \in ReqIds :
       (req[r].kind = "cast" /\ req[r].pc \in {"findVote", "insert", "saveCand"} /\ Responds(r))
         => lastResponse'.status = (IF req[r].pc = "saveCand" THEN 201 ELSE 400)]_vars

\* the valid Vote records that reference candidate c
ValidVotesFor(c) == {x \in votes : x.candidate = c /\ x.isValid}

\* C3: in every state with no castVote or invalidateVote in flight, each
\* candidate's voteCount equals the number of valid Vote records that
\* reference the candidate.
C3_Original ==
  InFlight = {} =>
    \A c \in Cands : CandidateExists(c) => cand[c].voteCount = Cardinality(ValidVotesFor(c))

C5_Original == \A c \in Cands : cand[c].voteCount >= 0

\* C6: once a Vote of voter v for position p is stored, one stays stored
\* whatever happens to it, and every castVote by v for p that reaches the
\* existing-vote check from then on is answered 400 (DuplicateVote) without
\* a write or an event, also when the stored vote has been invalidated.
C6_InvalidationKeepsTheSlot ==
  [][/\ \A x \in votes : \E y \in votes' : y.voter = x.voter /\ y.position = x.position
     /\ \A r \in ReqIds :
          (/\ req[r].kind = "cast" /\ req[r].pc = "findVote"
           /\ FindVote(req[r].voter, req[r].pos) # {}
           /\ req'[r].pc # "findVote")
            => /\ req'[r].pc = "done"
               /\ lastResponse'.kind = "cast" /\ lastResponse'.status = 400
               /\ UNCHANGED <<votes, cand, userTotal, events>>]_vars

\* a castVote stands at the existing-vote check while the only Vote of its
\* voter and position is one that an admin has invalidated
C6_Witness ==
  \E r \in ReqIds : /\ req[r].kind = "cast" /\ req[r].pc = "findVote"
                    /\ FindVote(req[r].voter, req[r].pos) # {}
                    /\ \A x \in FindVote(req[r].voter, req[r].pos) : ~x.isValid

\* C7: a castVote whose supplied position differs from the candidate's stored
\* position is rejected: the handler does not go on past the candidate check.
C7_Original ==
  [][\A r \in ReqIds :
       (req[r].pc = "idle" /\ req'[r].kind = "cast" /\ req'[r].pc = "findVote")
         => cand[req'[r].cand].position = req'[r].pos]_vars

\* C8: a castVote for a candidate id that does not exist, or whose candidate
\* is inactive, is answered 404 and creates no Vote record, changes no
\* counter and publishes no event: an arriving castVote either names a
\* stored, active candidate or is answered 404 at once with the collections
\* and the published events unchanged.
C8_MissingOrInactiveCandidateIs404 ==
  [][\A r \in ReqIds :
       (/\ req[r].pc = "idle" /\ req'[r].pc # "idle"
        /\ (req'[r].kind = "cast" \/ (req'[r].pc = "done" /\ lastResponse'.kind = "cast")))
         => \/ /\ req'[r].pc = "findVote"
               /\ CandidateExists(req'[r].cand) /\ cand[req'[r].cand].isActive
            \/ /\ req'[r].pc = "done"
               /\ lastResponse'.status = 404
               /\ UNCHANGED <<votes, cand, userTotal, events>>]_vars

\* a castVote that named a stored, inactive candidate was answered 404;
\* nothing was written or published
C8_Witness ==
  /\ lastResponse.kind = "cast" /\ lastResponse.status = 404 /\ lastResponse.found
  /\ votes = {} /\ events = << >>

RECURSIVE SumPercentages(_)
SumPercentages(results) ==
  IF results = << >> THEN 0
  ELSE Head(results).percentage.value + SumPercentages(Tail(results))

\* the body GET /votes/results/p sends when both its reads see this state
ResultsNow(p) ==
  ResultsBody(CHOOSE candidates \in SortByVoteCount(ActiveCandidates(p)) : TRUE, CountPosition(p))

\* C9: for every position, the percentages of the results over the active
\* candidates of the position sum to 0 or to 100, within the rounding of
\* the single percentages (half a hundredth each).
C9_Original ==
  \A p \in Positions :
    LET body == ResultsNow(p)
        sum == SumPercentages(body.results)
    IN \/ sum = 0
       \/ /\ sum >= 10000 - body.totalCandidates
          /\ sum <= 10000 + body.totalCandidates

\* C10: the results never hold the outcome of a division by zero, and when
\* the counted total is zero every listed candidate has percentage 0.
C10_ZeroTotalGivesZeroPercent ==
  resQ.pc = "done" =>
    \A i \in 1..Len(resQ.results) :
      /\ resQ.results[i].percentage.finite
      /\ resQ.totalVotes = 0 => resQ.results[i].percentage.value = 0

\* results were sent with a counted total of zero for a listed candidate
\* whose voteCount is above zero
C10_Witness ==
  /\ resQ.pc = "done" /\ resQ.totalVotes = 0
  /\ \E i \in 1..Len(resQ.results) : resQ.results[i].voteCount > 0
\* C11: when a castVote for position p has written its Vote and answers, the
\* vote-updated event of that request has been delivered to every socket that
\* is in p's room, and to no other socket.
C11_Original ==
  [][\A r \in ReqIds :
       (req[r].kind = "cast" /\ req[r].pc = "saveCand" /\ Responds(r))
         => \A s \in Sockets :
              IF req[r].pos \in sockets[s].rooms
              THEN /\ Len(sockets'[s].inbox) = Len(sockets[s].inbox) + 1
                   /\ sockets'[s].inbox[Len(sockets'[s].inbox)].position = req[r].pos
                   /\ sockets'[s].inbox[Len(sockets'[s].inbox)].candidateId = req[r].cand
              ELSE sockets'[s].inbox = sockets[s].inbox]_vars

\* C12: every ledger write that is answered with success, the Vote insert of
\* a castVote and the isValid update of an invalidateVote alike, comes with a
\* vote-updated event for the vote's candidate that carries the candidate's
\* stored voteCount.
C12_Original ==
  [][\A r \in ReqIds :
       (/\ Responds(r) /\ lastResponse'.status \in {200, 201}
        /\ \/ req[r].kind = "cast" /\ req[r].pc = "saveCand"
           \/ req[r].kind = "inv" /\ req[r].valid0 /\ CandidateExists(req[r].cand))
         => /\ Len(events') = Len(events) + 1
            /\ events'[Len(events')].candidateId = req[r].cand
            /\ events'[Len(events')].voteCount = cand'[req[r].cand].voteCount]_vars

\* request r takes a step of its own
Moves(r) == req'[r] # req[r]

\* C16: a request to an admin-gated route (invalidateVote, adminStats,
\* candidate create, update, delete, user-behaviour analytics) whose
\* authenticated caller is not an admin is answered 403, and none of its
\* steps changes a Vote, Candidate or User record.
C16_Original ==
  [][\A r \in ReqIds :
       (/\ req[r].kind \in AdminKinds /\ InAuth(r) /\ Moves(r)
        /\ ~IsAdmin(req[r].voter))
         => /\ Responds(r) => lastResponse'.status = 403
            /\ votes' = votes /\ cand' = cand /\ users' = users]_vars

\* C19: a step that handles a query request (resultsForPosition,
\* votingHistory, overviewStats, adminStats, dashboardAnalytics) leaves every
\* User, Candidate and Vote record unchanged.
C19_Original ==
  [][(\/ \E r \in ReqIds : req[r].kind \in QueryKinds /\ Moves(r)
      \/ resQ' # resQ
      \/ lastResponse' # lastResponse /\ lastResponse'.kind = "overview")
       => users' = users /\ cand' = cand /\ votes' = votes]_vars

\* request r arrives at the middleware in this step
Arrives(r) == req[r].pc = "idle" /\ req'[r].pc # "idle"

\* the token is present and verifies, the user it names exists and is active
\* now, and the token is at most seven days old
GoodToken(tok) ==
  /\ tok.present /\ tok.signed
  /\ tok.hasExp => now < tok.iat + MaxAge
  /\ tok.userId \in UserIds
  /\ users[tok.userId].isActive
  /\ now - tok.iat <= MaxAge

\* C17: auth passes a request on to its handler only if the token is present
\* and verifies, the user it names exists and is active at the time of the
\* request and the token is at most 7 days old; otherwise the request is
\* answered 401 at once, its handler never starts and no record changes, so
\* a castVote request of a deactivated user never reaches the ledger.
C17_AuthGate ==
  [][\A r \in ReqIds :
       Arrives(r) =>
         /\ req'[r].pc \in {"lastLogin", "next"}
              => GoodToken(lastToken') /\ req'[r].voter = lastToken'.userId
         /\ ~GoodToken(lastToken')
              => /\ req'[r] = Done
                 /\ lastResponse'.status = 401
                 /\ votes' = votes /\ cand' = cand /\ users' = users]_vars

\* the only request so far came with the unexpired token of the deactivated
\* user v1 and was answered 401
C17_Witness ==
  /\ lastToken = FreshToken("v1") /\ ~users["v1"].isActive
  /\ lastResponse.kind = "cast" /\ lastResponse.status = 401
  /\ req[1] = Done /\ \A r \in ReqIds \ {1} : req[r].pc = "idle"

\* the time at which the window of the i-th attempt of an address began,
\* log being the attempts of the address: the time of its first attempt, or
\* of the first one made after the resetTime of the window before
RECURSIVE WindowStart(_, _)
WindowStart(log, i) ==
  IF i = 1 THEN log[1].t
  ELSE LET start == WindowStart(log, i - 1)
       IN IF log[i].t > start + WindowMs THEN log[i].t ELSE start

\* the earlier attempts of the address in the window of the i-th
SameWindow(log, i) == {j \in 1..(i - 1) : WindowStart(log, j) = WindowStart(log, i)}

\* C18: of the attempts one address makes within one 15-minute window, the
\* first 5 are passed on; the 6th and every further one made up to the
\* window's resetTime is answered 429 and not passed on.
C18_FiveAttemptsPerWindow ==
  [][\A ip \in Ips :
       Len(attemptLog'[ip]) = Len(attemptLog[ip]) + 1 =>
         LET i == Len(attemptLog'[ip]) IN
         IF Cardinality(SameWindow(attemptLog'[ip], i)) < 5
         THEN attemptLog'[ip][i].next /\ lastResponse' = lastResponse
         ELSE /\ ~attemptLog'[ip][i].next /\ attemptLog'[ip][i].status = 429
              /\ lastResponse'.status = 429]_vars

\* ip1 was admitted five times, refused its 6th attempt, made before the
\* resetTime, and admitted again after the resetTime
C18_Witness ==
  LET log == attemptLog["ip1"] IN
  /\ Len(log) = 7
  /\ \A i \in 1..5 : log[i].next
  /\ log[6].status = 429 /\ log[6].t <= log[1].t + WindowMs
  /\ log[7].next /\ log[7].t > log[1].t + WindowMs

\* C20: when the results of a position are asked for twice and nothing was
\* written to the store from the first request to the second response, the
\* second response is identical to the first: same candidates in the same
\* order, same voteCount, percentage, totalVotes and totalCandidates.
C20_Original ==
  (/\ resQ.pc = "done" /\ prevQ.sent /\ prevQ.pos = resQ.pos
   /\ prevQ.cand = cand /\ prevQ.votes = votes)
    => SentBody = prevQ.body

\* C21: every Vote record's candidate reference resolves to an existing
\* Candidate record, whatever candidate operations (create, update,
\* deactivate, delete) the admin has done.
C21_Original ==
  \A x \in votes : CandidateExists(x.candidate)

\* C22: no step of an invalidateVote request deletes a Vote record or
\* changes another one, and when the request is answered 200 the Vote it
\* names is stored with the voter, candidate and position it had and with
\* isValid = false.
C22_InvalidateKeepsTheRecord ==
  [][\A r \in ReqIds :
       (req[r].kind = "inv" /\ Moves(r)) =>
         /\ \A x \in votes : x.id # req[r].vote => x \in votes'
         /\ Cardinality(votes') = Cardinality(votes)
         /\ (Responds(r) /\ lastResponse'.status = 200) =>
              \E y \in votes' :
                /\ y.id = req[r].vote /\ ~y.isValid
                /\ y.voter = req[r].voter /\ y.candidate = req[r].cand
                /\ y.position = req[r].pos]_vars

\* an invalidateVote request was answered 200, its Vote is stored as invalid
\* and another Vote is stored as valid
C22_Witness ==
  /\ lastResponse.kind = "inv" /\ lastResponse.status = 200
  /\ \E x, y \in votes : ~x.isValid /\ y.isValid

\* C23: with one request at a time, a castVote request for candidate c that
\* has inserted its Vote ends with c's voteCount exactly 1 above what it was
\* when the request arrived, and no step of the request changes another
\* candidate's voteCount.
C23_Original ==
  [][\A r \in ReqIds :
       (req[r].kind = "cast" /\ Moves(r)) =>
         /\ \A d \in Cands \ {req[r].cand} : cand'[d].voteCount = cand[d].voteCount
         /\ (req[r].pc = "saveCand" /\ Responds(r)) =>
              cand'[req[r].cand].voteCount = req[r].count0 + 1]_vars

\* the valid Vote records cast by user u
ValidVotesBy(u) == {x \in votes : x.voter = u /\ x.isValid}

\* C24: in every state with no castVote or invalidateVote in flight, each
\* user's stats.totalVotes equals the number of valid Vote records cast by
\* the user and is not negative.
C24_Original ==
  InFlight = {} =>
    \A u \in UserIds : userTotal[u] = Cardinality(ValidVotesBy(u)) /\ userTotal[u] >= 0

\* C25: an attempt made after the resetTime of its address has passed is
\* admitted with the count at 1 and a new window that starts at the attempt,
\* however many attempts were rejected before; a rejected attempt leaves
\* count and resetTime as they were; and the clean-up leaves unchanged, for
\* every address and every later time, whether an attempt is admitted and
\* what the entry is afterwards.
C25_WindowRestarts ==
  [][/\ \A ip \in Ips :
          Len(attemptLog'[ip]) = Len(attemptLog[ip]) + 1 =>
            LET last == attemptLog'[ip][Len(attemptLog'[ip])] IN
            /\ (authAttempts[ip].has /\ now > authAttempts[ip].resetTime) =>
                 /\ last.next
                 /\ authAttempts'[ip].count = 1
                 /\ authAttempts'[ip].resetTime = now + WindowMs
            /\ ~last.next => authAttempts'[ip] = authAttempts[ip]
     /\ (attemptLog' = attemptLog /\ now' = now) =>
          \A ip \in Ips, t \in now..(MaxRateTime + 1) :
            Handled(authAttempts'[ip], t) = Handled(authAttempts[ip], t)]_vars

\* ip1 used up its five attempts and was rejected, and its first attempt
\* after the resetTime has been admitted: the count is 1 and the window
\* starts now
C25_Witness ==
  LET log == attemptLog["ip1"] IN
  /\ Len(log) >= 7
  /\ ~log[Len(log) - 1].next /\ log[Len(log)].next /\ log[Len(log)].t = now
  /\ authAttempts["ip1"].count = 1
  /\ authAttempts["ip1"].resetTime = now + WindowMs

\* C26: the client makes at most 5 automatic reconnection attempts after a
\* connection loss; when they are exhausted it stays disconnected with
\* connectionError 'Reconnection failed', and it tries again only after a
\* manual reconnect().
C26_Original ==
  /\ client.attempts <= ReconnectionAttempts
  /\ client.mgr = "idle" =>
       /\ ~client.isConnected /\ ~sockets[ClientSocket].connected
       /\ client.connectionError = "Reconnection failed"

\* the vote rooms the client's connection is in
VoteRooms == sockets[ClientSocket].rooms \cap Positions

\* the Voting page is connected with a position selected
OnAPosition == client.mgr = "open" /\ client.selected \in Positions

\* nothing of the page is pending: rendered, nothing buffered or on the wire
Settled ==
  /\ ~client.stale /\ client.isConnected
  /\ client.wire = << >> /\ client.sendBuffer = << >>

\* C30: whenever the Voting page's client is connected with a selected
\* position p, it ends up in p's vote room and in no other position's vote
\* room, for any order of connects, disconnects, reconnects and position
\* switches: once the page has rendered and the server has handled what
\* was sent, the connection is in the selected position's room only, and
\* when the outside events stop that state is reached and kept.
C30_EndsUpInSelectedRoom ==
  /\ []((OnAPosition /\ Settled) => VoteRooms = {client.selected})
  /\ (<>[][~Client_Environment]_vars) => <>[](OnAPosition => VoteRooms = {client.selected})

\* the connected client is settled on p2, in the room of p2 alone
C30_Witness ==
  /\ OnAPosition /\ Settled
  /\ client.provider = "enhanced"
  /\ client.selected = "p2" /\ VoteRooms = {"p2"}
  /\ client.connectionError = NoError

\* C29: in every adminStats response totalVotes = validVotes + invalidVotes,
\* also when castVote or invalidateVote requests complete between the
\* three counts.
C29_Original ==
  statsQ.pc = "done" =>
    statsQ.totalVotes = statsQ.validVotes + statsQ.invalidVotes

\* C27: invalidateVote is idempotent: the invalidation of a vote that is
\* already invalid leaves every candidate's voteCount, every voter's
\* counter and every Vote record unchanged, and the invalidation of a valid
\* vote lowers its candidate's voteCount by 1, so that n invalidations of
\* one vote lower the counter by 1 in total.
C27_Original ==
  [][\A r \in ReqIds :
       (req[r].kind = "inv" /\ Moves(r)) =>
         /\ ~req[r].valid0 =>
              cand' = cand /\ userTotal' = userTotal /\ votes' = votes
         /\ (req[r].valid0 /\ Responds(r)) =>
              cand'[req[r].cand].voteCount = req[r].count0 - 1]_vars

\* C28: the save of a Candidate whose voteCount was modified terminates,
\* the chain pre('save') -> updateStats -> save does not re-enter itself
\* without bound: every castVote and every invalidateVote request that has
\* arrived is answered, a handler responds once and an answered request
\* does nothing more.
C28_SaveChainEnds ==
  /\ [][\A r \in ReqIds :
          /\ req[r].pc = "done" => req'[r] = req[r]
          /\ Responds(r) =>
               /\ lastResponse'.status # 0
               /\ req[r].pc # "idle" => lastResponse'.kind = req[r].kind]_vars
  /\ \A r \in ReqIds : (req[r].pc \notin {"idle", "done"}) ~> (req[r].pc = "done")

\* an invalidation has saved a Candidate with voteCount modified, after
\* the casts that did so, and has been answered 500
C28_Witness ==
  /\ lastResponse.kind = "inv" /\ lastResponse.status = 500
  /\ \E x \in votes : ~x.isValid /\ cand[x.candidate].voteCount > 0
  /\ InFlight = {}


============================================================================
